---- MODULE Spec2Model ----
(***************************************************************************)
(* Model of the dnt_perpetual_token program (programs/dnt-perpetual-token/ *)
(* src/lib.rs): the pooled-staking ledger (State, UserStake), the token    *)
(* accounts the instructions move value between, and one action per        *)
(* instruction.  An instruction works on a copy of the accounts (a         *)
(* "context"); the copy is written back only when the instruction returns  *)
(* Ok.                                                                      *)
(***************************************************************************)
EXTENDS Integers, Sequences, FiniteSets, TLC

VARIABLES
    now,                 \* Clock::get()?.unix_timestamp
    state,               \* the State account
    user_stake,          \* the UserStake account of every user
    user_token_account,  \* token balance of every user's token account
    vault_account,       \* token balance of the pool vault
    rewards_account,     \* token balance of the rewards account
    last                 \* the outcome of the last instruction processed

vars == <<now, state, user_stake, user_token_account, vault_account,
          rewards_account, last>>

(***************************************************************************)
(* Bounds of the model.                                                    *)
(***************************************************************************)
\* u64::MAX, scaled down to 16 bits so that the checker's integers hold it.
U64_MAX == 65535
\* The clock stops advancing once it would pass MaxTime.
MaxTime == 122
\* Tokens every user holds when the pool is initialized.
InitialBalance == 100
\* The same two bounds in the reward scenarios.
RewardsMaxTime == 40
RewardsInitialBalance == 2000
\* The reward instructions are not fired once the rewards account holds more.
MaxRewards == 5

Users == {"alice", "bob"}
NoUser == "none"

(***************************************************************************)
(* Program constants.                                                      *)
(***************************************************************************)
MIN_STAKE_DURATION_off_by_one == 60 + 1
MIN_STAKE_DURATION == 60

MAX_ALLOWED_LOSS_off_by_one == 50 - 1
MAX_ALLOWED_LOSS == 50

reward_rate_doubled == 1 + 1
reward_rate == 1

DEFAULT_THRESHOLD_other == 100 + 1
DEFAULT_THRESHOLD == 100

(***************************************************************************)
(* Checked u64 arithmetic: None stands for Option::None.                   *)
(***************************************************************************)
None == -1

checked_add(a, b) == IF a + b > U64_MAX THEN None ELSE a + b

checked_sub(a, b) == IF a < b THEN None ELSE a - b

\* The product is compared through a division so that it is never formed
\* when it does not fit.
checked_mul(a, b) ==
    IF a = 0 \/ b = 0 THEN 0
    ELSE IF b > U64_MAX \div a THEN None ELSE a * b

checked_div(a, b) == IF b = 0 THEN None ELSE a \div b

\* `x as u64` of an i64: a negative value wraps around.
as_u64(x) == IF x >= 0 THEN x ELSE U64_MAX + 1 + x

(***************************************************************************)
(* Results of an instruction.                                              *)
(***************************************************************************)
OK == "Ok"
InsufficientStake == "InsufficientStake"
EarlyUnstakeNotAllowed == "EarlyUnstakeNotAllowed"
NotEnoughVotes == "NotEnoughVotes"
\* An error returned by the token program through `?`.
TokenError == "TokenError"
\* A panic: unwrap() of None, an arithmetic overflow trap, a division by zero.
Panic == "Panic"
\* An error returned by a placeholder collaborator through `?`.
CollaboratorError == "CollaboratorError"

\* The accounts as an instruction sees them.
Accounts ==
    [state |-> state,
     user_stake |-> user_stake,
     user_token_account |-> user_token_account,
     vault_account |-> vault_account,
     rewards_account |-> rewards_account]

\* What an instruction returns: its result, the accounts as it left them,
\* the amount it minted and, in the order of the code, the calls it issued
\* and the ledger writes it made.
Return(result, ctx, minted, calls) ==
    [result |-> result, ctx |-> ctx, minted |-> minted, calls |-> calls]

\* In the calls of stake, stake_with_multiple_assets and unstake: the
\* token::transfer call, and the writes to total_staked and user_stake.amount.
TransferCall == "token::transfer"
LedgerWrite == "ledger"

(***************************************************************************)
(* The token program (anchor_spl::token).                                  *)
(***************************************************************************)
\* token::transfer: fails when the token program rejects the call (wrong
\* authority, frozen account: cpi_ok = FALSE), when the source holds less
\* than amount, or when the destination would overflow.
token_transfer(from, to, amount, cpi_ok) ==
    IF ~cpi_ok \/ from < amount \/ checked_add(to, amount) = None
    THEN [ok |-> FALSE, from |-> from, to |-> to]
    ELSE [ok |-> TRUE, from |-> from - amount, to |-> to + amount]

\* The supply of the token mint: every token account of the model.
RECURSIVE SumOver(_, _)
SumOver(f, S) ==
    IF S = {} THEN 0
    ELSE LET x == CHOOSE y \in S : TRUE IN f[x] + SumOver(f, S \ {x})

token_supply(ctx) ==
    SumOver(ctx.user_token_account, Users) + ctx.vault_account + ctx.rewards_account

\* token::mint_to: fails when the token program rejects the call or when
\* the supply would overflow.
token_mint_to(ctx, amount, cpi_ok) ==
    IF ~cpi_ok \/ token_supply(ctx) + amount > U64_MAX
    THEN [ok |-> FALSE, ctx |-> ctx]
    ELSE [ok |-> TRUE, ctx |-> [ctx EXCEPT !.rewards_account = @ + amount]]

mint_rewards_to_vault(ctx, amount, cpi_ok) ==
    LET m == token_mint_to(ctx, amount, cpi_ok) IN
    IF ~m.ok THEN m
    ELSE [ok |-> TRUE, ctx |-> [ctx EXCEPT !.vault_account = @ + amount]]

\* mint_rewards: the mint's error is propagated by `?`.
mint_rewards(ctx, amount, cpi_ok) == token_mint_to(ctx, amount, cpi_ok)

(***************************************************************************)
(* Placeholder oracles.                                                    *)
(***************************************************************************)
get_conversion_rate_doubled(asset_type) == 1 + 1
get_conversion_rate(asset_type) == 1

(***************************************************************************)
(* stake                                                                   *)
(***************************************************************************)
stake(ctx, user, amount, clock, cpi_ok) ==
    LET t == token_transfer(ctx.user_token_account[user], ctx.vault_account,
                            amount, cpi_ok)
    IN
    IF ~t.ok THEN Return(TokenError, ctx, 0, <<TransferCall>>)
    ELSE
    LET c1 == [ctx EXCEPT !.user_token_account[user] = t.from,
                          !.vault_account = t.to]
        total == checked_add(c1.state.total_staked, amount)
    IN
    IF total = None THEN Return(Panic, c1, 0, <<TransferCall>>)
    ELSE
    LET c2 == [c1 EXCEPT !.state.total_staked = total]
        amt == checked_add(c2.user_stake[user].amount, amount)
    IN
    IF amt = None THEN Return(Panic, c2, 0, <<TransferCall, LedgerWrite>>)
    ELSE Return(OK,
                [c2 EXCEPT !.user_stake[user].amount = amt,
                           !.user_stake[user].last_update = clock],
                0, <<TransferCall, LedgerWrite>>)

(***************************************************************************)
(* stake_with_multiple_assets                                              *)
(***************************************************************************)
stake_with_multiple_assets(ctx, user, asset_type, amount, clock, cpi_ok) ==
    LET conversion_rate == get_conversion_rate(asset_type)
        normalized_amount == checked_mul(amount, conversion_rate)
    IN
    IF normalized_amount = None THEN Return(Panic, ctx, 0, <<>>)
    ELSE
    LET total == checked_add(ctx.state.total_staked, normalized_amount) IN
    IF total = None THEN Return(Panic, ctx, 0, <<>>)
    ELSE
    LET c1 == [ctx EXCEPT !.state.total_staked = total]
        amt == checked_add(c1.user_stake[user].amount, normalized_amount)
    IN
    IF amt = None THEN Return(Panic, c1, 0, <<LedgerWrite>>)
    ELSE
    LET c2 == [c1 EXCEPT !.user_stake[user].amount = amt,
                         !.user_stake[user].last_update = clock]
        t == token_transfer(c2.user_token_account[user], c2.vault_account,
                            amount, cpi_ok)
    IN
    IF ~t.ok THEN Return(TokenError, c2, 0, <<LedgerWrite, TransferCall>>)
    ELSE Return(OK,
                [c2 EXCEPT !.user_token_account[user] = t.from,
                           !.vault_account = t.to],
                0, <<LedgerWrite, TransferCall>>)

(***************************************************************************)
(* unstake                                                                 *)
(***************************************************************************)
\* require!(user_stake.amount >= amount, ...)
has_sufficient_stake_strict(staked, amount) == staked > amount
has_sufficient_stake(staked, amount) == staked >= amount

\* now.checked_sub(last_update).unwrap() >= MIN_STAKE_DURATION; the i64
\* subtraction cannot overflow for the clock values of the model.
min_duration_met(clock, last_update) ==
    clock - last_update >= MIN_STAKE_DURATION

\* The ledger mutation of unstake, once both checked_sub are known to succeed.
unstake_ledger_keeps_total(ctx, user, amount) ==
    [ctx EXCEPT !.user_stake[user].amount = @ - amount]
unstake_ledger_keeps_amount(ctx, user, amount) ==
    [ctx EXCEPT !.state.total_staked = @ - amount]
unstake_ledger(ctx, user, amount) ==
    LET amt == checked_sub(ctx.user_stake[user].amount, amount)
        total == checked_sub(ctx.state.total_staked, amount)
    IN
    IF amt = None \/ total = None THEN ctx
    ELSE [ctx EXCEPT !.user_stake[user].amount = amt,
                     !.state.total_staked = total]

unstake(ctx, user, amount, clock, cpi_ok) ==
    IF ~has_sufficient_stake(ctx.user_stake[user].amount, amount)
    THEN Return(InsufficientStake, ctx, 0, <<>>)
    ELSE IF ~min_duration_met(clock, ctx.user_stake[user].last_update)
    THEN Return(EarlyUnstakeNotAllowed, ctx, 0, <<>>)
    ELSE IF checked_sub(ctx.user_stake[user].amount, amount) = None
    THEN Return(Panic, ctx, 0, <<>>)
    ELSE IF checked_sub(ctx.state.total_staked, amount) = None
    THEN Return(Panic, [ctx EXCEPT !.user_stake[user].amount = @ - amount],
                0, <<LedgerWrite>>)
    ELSE
    LET c1 == unstake_ledger(ctx, user, amount)
        t == token_transfer(c1.vault_account, c1.user_token_account[user],
                            amount, cpi_ok)
    IN
    IF ~t.ok THEN Return(TokenError, c1, 0, <<LedgerWrite, TransferCall>>)
    ELSE Return(OK,
                [c1 EXCEPT !.vault_account = t.from,
                           !.user_token_account[user] = t.to],
                0, <<LedgerWrite, TransferCall>>)

(***************************************************************************)
(* rebalance                                                               *)
(***************************************************************************)
rebalance_touches_last_update(ctx, clock) ==
    Return(OK, [ctx EXCEPT !.state.last_rebalance = clock,
                           !.state.last_update = clock], 0, <<>>)

rebalance(ctx, clock) ==
    Return(OK, [ctx EXCEPT !.state.last_rebalance = clock], 0, <<>>)

(***************************************************************************)
(* The reward instructions                                                 *)
(***************************************************************************)
\* total_staked.checked_mul(reward_rate).unwrap().checked_mul(duration)
reward_for(total_staked, duration) ==
    LET r == checked_mul(total_staked, reward_rate) IN
    IF r = None THEN None ELSE checked_mul(r, duration)

distribute_rewards_keeps_checkpoint(ctx, clock, cpi_ok) ==
    LET duration == as_u64(clock - ctx.state.last_update)
        reward_amount == reward_for(ctx.state.total_staked, duration)
    IN
    IF reward_amount = None THEN Return(Panic, ctx, 0, <<>>)
    ELSE
    LET m == mint_rewards(ctx, reward_amount, cpi_ok) IN
    IF ~m.ok THEN Return(TokenError, ctx, 0, <<>>)
    ELSE Return(OK, m.ctx, reward_amount, <<>>)

distribute_rewards_stores_duration(ctx, clock, cpi_ok) ==
    LET duration == as_u64(clock - ctx.state.last_update)
        reward_amount == reward_for(ctx.state.total_staked, duration)
    IN
    IF reward_amount = None THEN Return(Panic, ctx, 0, <<>>)
    ELSE
    LET m == mint_rewards(ctx, reward_amount, cpi_ok) IN
    IF ~m.ok THEN Return(TokenError, ctx, 0, <<>>)
    ELSE Return(OK, [m.ctx EXCEPT !.state.last_update = duration],
                reward_amount, <<>>)

distribute_rewards(ctx, clock, cpi_ok) ==
    LET duration == as_u64(clock - ctx.state.last_update)
        reward_amount == reward_for(ctx.state.total_staked, duration)
    IN
    IF reward_amount = None THEN Return(Panic, ctx, 0, <<>>)
    ELSE
    LET m == mint_rewards(ctx, reward_amount, cpi_ok) IN
    IF ~m.ok THEN Return(TokenError, ctx, 0, <<>>)
    ELSE Return(OK, [m.ctx EXCEPT !.state.last_update = clock],
                reward_amount, <<>>)

update_rewards_based_on_funding_rounds_up(ctx, funding_rate, cpi_ok) ==
    LET p == checked_mul(ctx.state.total_staked, funding_rate) IN
    IF p = None THEN Return(Panic, ctx, 0, <<>>)
    ELSE
    LET reward_amount == checked_div(p + 99, 100)
        m == mint_rewards(ctx, reward_amount, cpi_ok)
    IN
    IF ~m.ok THEN Return(TokenError, ctx, 0, <<>>)
    ELSE Return(OK, m.ctx, reward_amount, <<>>)

update_rewards_based_on_funding(ctx, funding_rate, cpi_ok) ==
    LET p == checked_mul(ctx.state.total_staked, funding_rate) IN
    IF p = None THEN Return(Panic, ctx, 0, <<>>)
    ELSE
    LET reward_amount == checked_div(p, 100)
        m == mint_rewards(ctx, reward_amount, cpi_ok)
    IN
    IF ~m.ok THEN Return(TokenError, ctx, 0, <<>>)
    ELSE Return(OK, m.ctx, reward_amount, <<>>)

distribute_arbitrage_profits(ctx, total_profits, cpi_ok) ==
    LET m == mint_rewards(ctx, total_profits, cpi_ok) IN
    IF ~m.ok THEN Return(TokenError, ctx, 0, <<>>)
    ELSE Return(OK, m.ctx, total_profits, <<>>)

reward_liquidity_providers(ctx, maker_volume, cpi_ok) ==
    LET reward_amount == checked_div(maker_volume, 1000)
        m == mint_rewards(ctx, reward_amount, cpi_ok)
    IN
    IF ~m.ok THEN Return(TokenError, ctx, 0, <<>>)
    ELSE Return(OK, m.ctx, reward_amount, <<>>)

(***************************************************************************)
(* auto_liquidate                                                          *)
(***************************************************************************)
\* user_position.loss_percentage > MAX_ALLOWED_LOSS
exceeds_allowed_loss(loss_percentage) == loss_percentage > MAX_ALLOWED_LOSS

\* calls lists the collaborators invoked, in order; close_ok and update_ok are
\* what force_close_position and update_state_after_liquidation return.
auto_liquidate(ctx, loss_percentage, close_ok, update_ok) ==
    IF exceeds_allowed_loss(loss_percentage)
    THEN IF ~close_ok
         THEN Return(CollaboratorError, ctx, 0, <<"force_close_position">>)
         ELSE IF ~update_ok
         THEN Return(CollaboratorError, ctx, 0,
                     <<"force_close_position", "update_state_after_liquidation">>)
         ELSE Return(OK, ctx, 0,
                     <<"force_close_position", "update_state_after_liquidation">>)
    ELSE Return(OK, ctx, 0, <<>>)

(***************************************************************************)
(* vote_on_risk_params                                                     *)
(***************************************************************************)
\* yes_votes * 100 / total_votes >= 60 on u64.  The multiplication is
\* unchecked: when it does not fit, the build either traps (overflow checks
\* on) or wraps; the division traps on zero.  None stands for the trap.
vote_ratio(yes_votes, total_votes, overflow_checks) ==
    LET p == yes_votes * 100 IN
    IF p > U64_MAX /\ overflow_checks THEN None
    ELSE IF total_votes = 0 THEN None
    ELSE (p % (U64_MAX + 1)) \div total_votes

vote_on_risk_params(ctx, new_threshold, total_votes, yes_votes, overflow_checks) ==
    LET ratio == vote_ratio(yes_votes, total_votes, overflow_checks) IN
    IF ratio = None THEN Return(Panic, ctx, 0, <<>>)
    ELSE IF ~(ratio >= 60) THEN Return(NotEnoughVotes, ctx, 0, <<>>)
    ELSE Return(OK, [ctx EXCEPT !.state.allowed_delta_threshold = new_threshold],
                0, <<>>)

(***************************************************************************)
(* The program entry point: the accounts an instruction changed are        *)
(* written back only when the instruction returns Ok; on an error or a     *)
(* panic the transaction is discarded.                                     *)
(***************************************************************************)
WriteBack(ctx) ==
    /\ state' = ctx.state
    /\ user_stake' = ctx.user_stake
    /\ user_token_account' = ctx.user_token_account
    /\ vault_account' = ctx.vault_account
    /\ rewards_account' = ctx.rewards_account

persist_even_on_error(r) == WriteBack(r.ctx)
Persist(r) ==
    IF r.result = OK
    THEN WriteBack(r.ctx)
    ELSE UNCHANGED <<state, user_stake, user_token_account, vault_account,
                     rewards_account>>

\* The record kept of the instruction just processed: its name, the user and
\* the u64 argument it was called with, the clock and the oracle readings it
\* saw, what the collaborators answered, and what it returned.
Outcome(op, user, amount, reading, flags, r) ==
    [op |-> op, user |-> user, amount |-> amount, at |-> now,
     reading |-> reading, flags |-> flags,
     result |-> r.result, minted |-> r.minted, calls |-> r.calls]

(***************************************************************************)
(* initialize, with every UserStake and token account as provisioned.      *)
(***************************************************************************)
initialize(clock) ==
    [total_staked |-> 0, last_update |-> clock, last_rebalance |-> clock,
     allowed_delta_threshold |-> DEFAULT_THRESHOLD]

InitWith(balance) ==
    /\ now = 0
    /\ state = initialize(0)
    /\ user_stake = [u \in Users |-> [amount |-> 0, last_update |-> 0]]
    /\ user_token_account = [u \in Users |-> balance]
    /\ vault_account = 0
    /\ rewards_account = 0
    /\ last = [op |-> "initialize", user |-> NoUser, amount |-> 0, at |-> 0,
               reading |-> <<>>, flags |-> <<>>,
               result |-> OK, minted |-> 0, calls |-> <<>>]

(***************************************************************************)
(* Actions: one per instruction, and the clock.                            *)
(***************************************************************************)
Tick(d, limit) ==
    /\ now + d <= limit
    /\ now' = now + d
    /\ last' = [op |-> "tick", user |-> NoUser, amount |-> d, at |-> now,
                reading |-> <<>>, flags |-> <<>>,
                result |-> OK, minted |-> 0, calls |-> <<>>]
    /\ UNCHANGED <<state, user_stake, user_token_account, vault_account,
                   rewards_account>>

Stake(u, amount, cpi_ok) ==
    LET r == stake(Accounts, u, amount, now, cpi_ok) IN
    /\ Persist(r)
    /\ last' = Outcome("stake", u, amount, <<>>, <<cpi_ok>>, r)
    /\ UNCHANGED now

StakeWithMultipleAssets(u, asset_type, amount, cpi_ok) ==
    LET r == stake_with_multiple_assets(Accounts, u, asset_type, amount, now, cpi_ok) IN
    /\ Persist(r)
    /\ last' = Outcome("stake_with_multiple_assets", u, amount, <<asset_type>>,
                       <<cpi_ok>>, r)
    /\ UNCHANGED now

Unstake(u, amount, cpi_ok) ==
    LET r == unstake(Accounts, u, amount, now, cpi_ok) IN
    /\ Persist(r)
    /\ last' = Outcome("unstake", u, amount, <<>>, <<cpi_ok>>, r)
    /\ UNCHANGED now

Rebalance ==
    LET r == rebalance(Accounts, now) IN
    /\ Persist(r)
    /\ last' = Outcome("rebalance", NoUser, 0, <<>>, <<>>, r)
    /\ UNCHANGED now

DistributeRewards(cpi_ok) ==
    LET r == distribute_rewards(Accounts, now, cpi_ok) IN
    /\ Persist(r)
    /\ last' = Outcome("distribute_rewards", NoUser, 0, <<>>, <<cpi_ok>>, r)
    /\ UNCHANGED now

UpdateRewardsBasedOnFunding(funding_rate, cpi_ok) ==
    LET r == update_rewards_based_on_funding(Accounts, funding_rate, cpi_ok) IN
    /\ Persist(r)
    /\ last' = Outcome("update_rewards_based_on_funding", NoUser, 0,
                       <<funding_rate>>, <<cpi_ok>>, r)
    /\ UNCHANGED now

DistributeArbitrageProfits(total_profits, cpi_ok) ==
    LET r == distribute_arbitrage_profits(Accounts, total_profits, cpi_ok) IN
    /\ Persist(r)
    /\ last' = Outcome("distribute_arbitrage_profits", NoUser, 0,
                       <<total_profits>>, <<cpi_ok>>, r)
    /\ UNCHANGED now

RewardLiquidityProviders(maker_volume, cpi_ok) ==
    LET r == reward_liquidity_providers(Accounts, maker_volume, cpi_ok) IN
    /\ Persist(r)
    /\ last' = Outcome("reward_liquidity_providers", NoUser, 0,
                       <<maker_volume>>, <<cpi_ok>>, r)
    /\ UNCHANGED now

AutoLiquidate(u, loss_percentage, close_ok, update_ok) ==
    LET r == auto_liquidate(Accounts, loss_percentage, close_ok, update_ok) IN
    /\ Persist(r)
    /\ last' = Outcome("auto_liquidate", u, 0, <<loss_percentage>>,
                       <<close_ok, update_ok>>, r)
    /\ UNCHANGED now

VoteOnRiskParams(new_threshold, total_votes, yes_votes, overflow_checks) ==
    LET r == vote_on_risk_params(Accounts, new_threshold, total_votes, yes_votes,
                                 overflow_checks) IN
    /\ Persist(r)
    /\ last' = Outcome("vote_on_risk_params", NoUser, new_threshold,
                       <<total_votes, yes_votes>>, <<overflow_checks>>, r)
    /\ UNCHANGED now

(***************************************************************************)
(* The staking ledger: stake, stake_with_multiple_assets and unstake by    *)
(* two users, with the clock advancing in steps around MIN_STAKE_DURATION. *)
(***************************************************************************)
TickSteps == {60, 61}
StakeAmounts == {0, 50, 100, U64_MAX}
UnstakeAmounts == {0, 50, 100}
AssetTypes == {0, 1}

Init == InitWith(InitialBalance)

Next ==
    \/ \E d \in TickSteps : Tick(d, MaxTime)
    \/ \E u \in Users, a \in StakeAmounts, cpi_ok \in BOOLEAN : Stake(u, a, cpi_ok)
    \/ \E u \in Users, t \in AssetTypes, a \in StakeAmounts, cpi_ok \in BOOLEAN :
          StakeWithMultipleAssets(u, t, a, cpi_ok)
    \/ \E u \in Users, a \in UnstakeAmounts, cpi_ok \in BOOLEAN : Unstake(u, a, cpi_ok)

Spec == Init /\ [][Next]_vars

(***************************************************************************)
(* Governance and liquidation: vote_on_risk_params and auto_liquidate for  *)
(* every reading of the vote tallies and of the position risk, with        *)
(* rebalance and the clock.                                                *)
(***************************************************************************)
\* get_total_votes() and get_yes_votes(): the placeholder readings 100 and
\* 70, and readings around the 60% threshold, zero, and one whose hundredfold
\* does not fit a u64.
TotalVotes == {0, 100}
YesVotes == {59, 60, 70, U64_MAX \div 100 + 1}
NewThresholds == {0, U64_MAX}
\* get_user_position().loss_percentage: the placeholder reading 10, and
\* readings at and just above MAX_ALLOWED_LOSS.
LossPercentages == {10, 50, 51}

NextGov ==
    \/ \E d \in TickSteps : Tick(d, MaxTime)
    \/ Rebalance
    \/ \E t \in NewThresholds, tv \in TotalVotes, yv \in YesVotes, oc \in BOOLEAN :
          VoteOnRiskParams(t, tv, yv, oc)
    \/ \E u \in Users, l \in LossPercentages, close_ok \in BOOLEAN,
          update_ok \in BOOLEAN :
          AutoLiquidate(u, l, close_ok, update_ok)

SpecGov == Init /\ [][NextGov]_vars

(***************************************************************************)
(* Rewards: the four reward instructions over a pool that users stake      *)
(* into, with the clock advancing in steps of 10.                          *)
(***************************************************************************)
RewardTickSteps == {10}
RewardStakeAmounts == {1000}
\* get_funding_rate_from_oracle(), get_arbitrage_profits_from_vault() and
\* get_maker_trading_volume(): the placeholder readings.
FundingRates == {5}
ArbitrageProfits == {1000}
MakerVolumes == {5000}

InitRewards == InitWith(RewardsInitialBalance)

\* The reward instructions are fired while the rewards account holds at
\* most MaxRewards.
RewardsBelowCap == rewards_account <= MaxRewards

NextRewards ==
    \/ \E d \in RewardTickSteps : Tick(d, RewardsMaxTime)
    \/ \E u \in Users, a \in RewardStakeAmounts, cpi_ok \in BOOLEAN :
          Stake(u, a, cpi_ok)
    \/ RewardsBelowCap /\ \E cpi_ok \in BOOLEAN : DistributeRewards(cpi_ok)
    \/ RewardsBelowCap /\ \E f \in FundingRates, cpi_ok \in BOOLEAN :
          UpdateRewardsBasedOnFunding(f, cpi_ok)
    \/ RewardsBelowCap /\ \E p \in ArbitrageProfits, cpi_ok \in BOOLEAN :
          DistributeArbitrageProfits(p, cpi_ok)
    \/ RewardsBelowCap /\ \E v \in MakerVolumes, cpi_ok \in BOOLEAN :
          RewardLiquidityProviders(v, cpi_ok)

SpecRewards == InitRewards /\ [][NextRewards]_vars

(***************************************************************************)
(* Every instruction together, each with few inputs.                       *)
(***************************************************************************)
AllTickSteps == {60}
AllStakeAmounts == {100, U64_MAX}
AllUnstakeAmounts == {100}
AllTotalVotes == {100}
AllYesVotes == {59, 70}
AllNewThresholds == {0, 7}
AllLossPercentages == {51}
AllLiquidated == {"alice"}

NextAll ==
    \/ \E d \in AllTickSteps : Tick(d, MaxTime)
    \/ \E u \in Users : Stake(u, InitialBalance, TRUE)
    \/ \E u \in Users, a \in AllStakeAmounts, cpi_ok \in BOOLEAN :
          StakeWithMultipleAssets(u, 0, a, cpi_ok)
    \/ \E u \in Users, a \in AllUnstakeAmounts, cpi_ok \in BOOLEAN :
          Unstake(u, a, cpi_ok)
    \/ Rebalance
    \/ RewardsBelowCap /\ \E cpi_ok \in BOOLEAN : DistributeRewards(cpi_ok)
    \/ RewardsBelowCap /\ \E f \in FundingRates : UpdateRewardsBasedOnFunding(f, TRUE)
    \/ RewardsBelowCap /\ \E p \in ArbitrageProfits : DistributeArbitrageProfits(p, TRUE)
    \/ RewardsBelowCap /\ \E v \in MakerVolumes, cpi_ok \in BOOLEAN :
          RewardLiquidityProviders(v, cpi_ok)
    \/ \E t \in AllNewThresholds, tv \in AllTotalVotes, yv \in AllYesVotes :
          VoteOnRiskParams(t, tv, yv, TRUE)
    \/ \E u \in AllLiquidated, l \in AllLossPercentages, close_ok \in BOOLEAN :
          AutoLiquidate(u, l, close_ok, TRUE)

SpecAll == Init /\ [][NextAll]_vars

(***************************************************************************)
(* Properties of the staking ledger (checked under Spec).                  *)
(***************************************************************************)
Ledger == <<state, user_stake>>
Custody == <<user_token_account, vault_account, rewards_account>>

StakeOps == {"stake", "stake_with_multiple_assets"}

\* C1: conservation.  After every instruction, total_staked is the sum of
\* the amounts of all UserStake accounts.
C1_Conservation ==
    state.total_staked = SumOver([u \in Users |-> user_stake[u].amount], Users)

\* Both users hold stake after a successful unstake that left some behind.
C1_Witness ==
    /\ last.op = "unstake" /\ last.result = OK /\ last.amount > 0
    /\ \A u \in Users : user_stake[u].amount > 0

\* C3 as stated: an unstake before 60 time units have passed fails with
\* EarlyUnstakeNotAllowed whatever the amount, and an unstake of at most the
\* balance at exactly 60 succeeds.
C3_AsStated ==
    [][last'.op = "unstake" =>
        LET us == user_stake[last'.user] IN
        /\ now - us.last_update < 60 => last'.result = EarlyUnstakeNotAllowed
        /\ (now - us.last_update = 60 /\ last'.amount <= us.amount)
              => last'.result = OK
      ]_vars

\* C3 as amended: before 60 time units have passed, an unstake of at most the
\* balance fails with EarlyUnstakeNotAllowed and a larger one fails with
\* InsufficientStake; at exactly 60 an unstake of at most the balance is not
\* rejected by either check, and succeeds exactly when the token program
\* accepts the transfer.
C3_UnstakeGating ==
    [][last'.op = "unstake" =>
        LET us == user_stake[last'.user] IN
        /\ (now - us.last_update < 60 /\ last'.amount <= us.amount)
              => last'.result = EarlyUnstakeNotAllowed
        /\ (now - us.last_update < 60 /\ last'.amount > us.amount)
              => last'.result = InsufficientStake
        /\ (now - us.last_update = 60 /\ last'.amount <= us.amount)
              => /\ last'.result \in {OK, TokenError}
                 /\ last'.result = OK <=> last'.flags[1]
      ]_vars

\* A positive unstake succeeded exactly 60 time units after the user's stake.
C3_Witness ==
    /\ last.op = "unstake" /\ last.result = OK /\ last.amount > 0
    /\ now - user_stake[last.user].last_update = 60

\* C4: balance gating.  An unstake fails with InsufficientStake exactly when
\* the amount exceeds the user's staked amount, and no staked amount is ever
\* negative.
C4_BalanceGating ==
    [][/\ last'.op = "unstake" =>
            (last'.result = InsufficientStake
                <=> last'.amount > user_stake[last'.user].amount)
       /\ \A u \in Users : user_stake'[u].amount >= 0
      ]_vars

\* An unstake of the exact, positive balance succeeded.
C4_Witness ==
    /\ last.op = "unstake" /\ last.result = OK /\ last.amount > 0
    /\ user_stake[last.user].amount = 0

\* C5 as stated: a stake that would take total_staked or the user's amount
\* past u64::MAX fails with ArithmeticOverflow and changes nothing (a stake
\* that the token program refused is left aside: stake transfers first).
C5_AsStated ==
    [][(/\ last'.op \in StakeOps
        /\ last'.result # TokenError
        /\ \/ state.total_staked + last'.amount > U64_MAX
           \/ user_stake[last'.user].amount + last'.amount > U64_MAX)
        => /\ last'.result = "ArithmeticOverflow"
           /\ UNCHANGED <<Ledger, Custody>>
      ]_vars

\* C9: end to end.  A successful stake of a adds a to the user's amount and
\* to total_staked; an unstake of b of at most the user's amount, 60 or more
\* time units after the user's last stake, succeeds when the token program
\* accepts the transfer, and takes exactly b off both.
C9_EndToEnd ==
    [][/\ (last'.op = "stake" /\ last'.result = OK) =>
            /\ user_stake'[last'.user].amount
                  = user_stake[last'.user].amount + last'.amount
            /\ state'.total_staked = state.total_staked + last'.amount
       /\ (/\ last'.op = "unstake"
           /\ last'.amount <= user_stake[last'.user].amount
           /\ now - user_stake[last'.user].last_update >= 60
           /\ last'.flags[1]) =>
            /\ last'.result = OK
            /\ user_stake'[last'.user].amount
                  = user_stake[last'.user].amount - last'.amount
            /\ state'.total_staked = state.total_staked - last'.amount
      ]_vars

\* initialize, stake(100), wait 61, unstake(50): amount 50, total_staked 50.
C9_Witness ==
    /\ last.op = "unstake" /\ last.result = OK /\ last.amount = 50
    /\ now = 61
    /\ user_stake[last.user] = [amount |-> 50, last_update |-> 0]
    /\ state.total_staked = 50

\* C10 as stated: a stake of amount 0 is rejected and changes nothing.
C10_AsStated ==
    [][(last'.op = "stake" /\ last'.amount = 0)
        => /\ last'.result # OK
           /\ UNCHANGED <<Ledger, Custody>>
      ]_vars

C6_AsStated ==
    [][last'.op = "vote_on_risk_params" =>
        LET total_votes == last'.reading[1]
            yes_votes == last'.reading[2]
            passes == total_votes # 0 /\ (yes_votes * 100) \div total_votes >= 60
        IN
        /\ last'.result = OK <=> passes
        /\ last'.result = OK =>
              state'.allowed_delta_threshold = last'.amount
        /\ last'.result # OK =>
              /\ last'.result = NotEnoughVotes
              /\ state'.allowed_delta_threshold = state.allowed_delta_threshold
      ]_vars

ForceClose == "force_close_position"
Reconcile == "update_state_after_liquidation"

InCalls(name, calls) == \E i \in 1..Len(calls) : calls[i] = name

\* C8: liquidation trigger and sequencing.  auto_liquidate calls
\* force_close_position exactly when the loss percentage is above 50, and
\* calls update_state_after_liquidation only right after a
\* force_close_position that returned Ok.
C8_LiquidationTrigger ==
    last.op = "auto_liquidate" =>
        /\ InCalls(ForceClose, last.calls) <=> last.reading[1] > 50
        /\ InCalls(Reconcile, last.calls) =>
              /\ last.calls = <<ForceClose, Reconcile>>
              /\ last.flags[1]
        /\ (last.reading[1] > 50 /\ last.flags[1]) =>
              last.calls = <<ForceClose, Reconcile>>

\* A loss of 51 triggered the close, and the reconciliation followed it.
C8_Witness ==
    /\ last.op = "auto_liquidate" /\ last.result = OK
    /\ last.reading[1] = 51
    /\ last.calls = <<ForceClose, Reconcile>>

(***************************************************************************)
(* Properties of the reward instructions (checked under SpecRewards).      *)
(***************************************************************************)
\* C7: reward arithmetic.  A successful distribute_rewards mints exactly
\* total_staked * 1 * (now - state.last_update) to the rewards account and
\* sets state.last_update to now; when that product does not fit a u64 the
\* call fails and mints nothing.
C7_RewardArithmetic ==
    [][last'.op = "distribute_rewards" =>
        LET reward == state.total_staked * 1 * (now - state.last_update) IN
        /\ last'.result = OK =>
              /\ last'.minted = reward
              /\ rewards_account' = rewards_account + reward
              /\ state'.last_update = now
        /\ reward > U64_MAX =>
              /\ last'.result # OK
              /\ rewards_account' = rewards_account
              /\ state' = state
      ]_vars

\* total_staked = 1000 over a duration of 10 minted 10000.
C7_Witness ==
    /\ last.op = "distribute_rewards" /\ last.result = OK
    /\ state.total_staked = 1000
    /\ last.minted = 10000
    /\ rewards_account = 10000

(***************************************************************************)
(* Further properties of the staking instructions (checked under Spec).    *)
(***************************************************************************)
\* C11 as stated: every successful stake, stake_with_multiple_assets and
\* unstake sets the caller's UserStake.last_update to the current time.
C11_AsStated ==
    [][(last'.op \in StakeOps \cup {"unstake"} /\ last'.result = OK)
          => user_stake'[last'.user].last_update = now
      ]_vars

\* C12 as stated: in stake, stake_with_multiple_assets and unstake the
\* token::transfer call is never issued without a ledger write before it.
C12_AsStated ==
    (last.op \in StakeOps \cup {"unstake"} /\ InCalls(TransferCall, last.calls))
        => last.calls[1] = LedgerWrite

\* C13: a successful stake_with_multiple_assets adds amount * conversion
\* rate (1) to total_staked and to the caller's amount, sets the caller's
\* last_update to now, moves exactly amount from the caller's token account
\* into the vault and touches nothing else; it succeeds exactly when
\* stake(amount) would, and leaves the accounts as stake(amount) would.
C13_MultiAssetStake ==
    [][last'.op = "stake_with_multiple_assets" =>
        LET u == last'.user
            amount == last'.amount
            s == stake(Accounts, u, amount, now, last'.flags[1])
        IN
        /\ last'.result = OK <=> s.result = OK
        /\ last'.result = OK =>
              /\ state' = [state EXCEPT !.total_staked = @ + amount * 1]
              /\ user_stake' =
                    [user_stake EXCEPT ![u] = [amount |-> @.amount + amount * 1,
                                               last_update |-> now]]
              /\ user_token_account' =
                    [user_token_account EXCEPT ![u] = @ - amount]
              /\ vault_account' = vault_account + amount
              /\ rewards_account' = rewards_account
              /\ s.ctx = [state |-> state', user_stake |-> user_stake',
                          user_token_account |-> user_token_account',
                          vault_account |-> vault_account',
                          rewards_account |-> rewards_account']
      ]_vars

\* A stake_with_multiple_assets of 50 on top of an earlier stake of 50,
\* at a later time.
C13_Witness ==
    /\ last.op = "stake_with_multiple_assets" /\ last.result = OK
    /\ last.amount = 50
    /\ user_stake[last.user] = [amount |-> 100, last_update |-> now]
    /\ now > 0
    /\ vault_account = state.total_staked

(***************************************************************************)
(* The reward instructions on readings that do not divide evenly (checked  *)
(* under SpecFrame).                                                       *)
(***************************************************************************)
FrameStakeAmounts == {50}
FrameFundingRates == {5, 7}
FrameMakerVolumes == {999, 1999, 5000}

NextFrame ==
    \/ \E d \in RewardTickSteps : Tick(d, RewardsMaxTime)
    \/ \E u \in Users, a \in FrameStakeAmounts : Stake(u, a, TRUE)
    \/ RewardsBelowCap /\ \E cpi_ok \in BOOLEAN : DistributeRewards(cpi_ok)
    \/ RewardsBelowCap /\ \E f \in FrameFundingRates, cpi_ok \in BOOLEAN :
          UpdateRewardsBasedOnFunding(f, cpi_ok)
    \/ RewardsBelowCap /\ \E p \in ArbitrageProfits, cpi_ok \in BOOLEAN :
          DistributeArbitrageProfits(p, cpi_ok)
    \/ RewardsBelowCap /\ \E v \in FrameMakerVolumes, cpi_ok \in BOOLEAN :
          RewardLiquidityProviders(v, cpi_ok)

SpecFrame == Init /\ [][NextFrame]_vars

RewardOps == {"distribute_rewards", "update_rewards_based_on_funding",
              "distribute_arbitrage_profits", "reward_liquidity_providers"}

\* C17: no reward instruction changes total_staked, a UserStake, a user's
\* token account or the vault; only distribute_rewards changes State (its
\* last_update); a successful update_rewards_based_on_funding mints
\* floor(total_staked * funding_rate / 100), distribute_arbitrage_profits
\* mints the profits read and reward_liquidity_providers mints
\* floor(maker_volume / 1000): amounts that depend on State and the reading
\* only, so a repeated call mints the same again.
C17_RewardFrame ==
    [][last'.op \in RewardOps =>
        /\ UNCHANGED <<user_stake, user_token_account, vault_account>>
        /\ state'.total_staked = state.total_staked
        /\ state'.last_rebalance = state.last_rebalance
        /\ state'.allowed_delta_threshold = state.allowed_delta_threshold
        /\ last'.op # "distribute_rewards" => state' = state
        /\ rewards_account' = rewards_account + last'.minted
        /\ (last'.op = "update_rewards_based_on_funding" /\ last'.result = OK)
              => last'.minted = (state.total_staked * last'.reading[1]) \div 100
        /\ (last'.op = "distribute_arbitrage_profits" /\ last'.result = OK)
              => last'.minted = last'.reading[1]
        /\ (last'.op = "reward_liquidity_providers" /\ last'.result = OK)
              => last'.minted = last'.reading[1] \div 1000
        /\ last'.result # OK => last'.minted = 0
      ]_vars

\* update_rewards_based_on_funding minted floor(150 * 5 / 100) = 7 after an
\* earlier reward instructions had minted 2.
C17_Witness ==
    /\ last.op = "update_rewards_based_on_funding" /\ last.result = OK
    /\ state.total_staked = 150 /\ last.reading = <<5>>
    /\ last.minted = 7
    /\ rewards_account = 9

(***************************************************************************)
(* Properties over all the instructions together (checked under SpecAll).  *)
(***************************************************************************)
\* C14: rebalance always succeeds, sets state.last_rebalance to the current
\* time and changes nothing else: not total_staked, not state.last_update,
\* not the threshold, no UserStake and no token account.
C14_RebalanceFrame ==
    [][last'.op = "rebalance" =>
        /\ last'.result = OK
        /\ state' = [state EXCEPT !.last_rebalance = now]
        /\ UNCHANGED <<user_stake, Custody>>
      ]_vars

\* A rebalance at a later time than the last reward checkpoint, with stake
\* in the pool.
C14_Witness ==
    /\ last.op = "rebalance" /\ last.result = OK
    /\ now > 0 /\ state.last_rebalance = now
    /\ state.last_update < now
    /\ state.total_staked > 0

\* C15: monotonic timestamps.  state.last_update, state.last_rebalance and
\* every UserStake.last_update never decrease and never exceed the current
\* time.
C15_MonotonicTimestamps ==
    /\ [](/\ state.last_update <= now
          /\ state.last_rebalance <= now
          /\ \A u \in Users : user_stake[u].last_update <= now)
    /\ [][/\ now' >= now
          /\ state'.last_update >= state.last_update
          /\ state'.last_rebalance >= state.last_rebalance
          /\ \A u \in Users :
                user_stake'[u].last_update >= user_stake[u].last_update
         ]_vars

\* All three kinds of timestamp have advanced, to different times.
C15_Witness ==
    /\ state.last_update > 0
    /\ state.last_rebalance > state.last_update
    /\ \E u \in Users : /\ user_stake[u].last_update > 0
                        /\ user_stake[u].last_update < now

\* C16: allowed_delta_threshold is 100 after initialize; a successful
\* vote_on_risk_params sets it to its new_threshold, and no other step (any
\* other instruction, a failed vote) changes it.
C16_ThresholdFrame ==
    /\ state.allowed_delta_threshold = 100
    /\ [][IF last'.op = "vote_on_risk_params" /\ last'.result = OK
          THEN state'.allowed_delta_threshold = last'.amount
          ELSE state'.allowed_delta_threshold = state.allowed_delta_threshold
         ]_vars

\* A successful vote set the threshold to 7 while there was stake in the
\* pool.
C16_Witness ==
    /\ last.op = "vote_on_risk_params" /\ last.result = OK
    /\ last.amount = 7 /\ state.allowed_delta_threshold = 7
    /\ state.total_staked > 0

\* C18: custody solvency.  The vault's balance equals total_staked in every
\* state, and no reward instruction changes the vault's balance.
C18_CustodySolvency ==
    /\ [](vault_account = state.total_staked)
    /\ [][last'.op \in RewardOps => vault_account' = vault_account]_vars

\* Rewards were minted while both users' stakes were in the vault.
C18_Witness ==
    /\ last.op \in RewardOps /\ last.result = OK /\ last.minted > 0
    /\ rewards_account > 0
    /\ vault_account = 2 * InitialBalance
    /\ \A u \in Users : user_stake[u].amount = InitialBalance

(***************************************************************************)
(* Withdrawal (checked under SpecWithdraw): alice deposits only while she  *)
(* holds no stake and early enough for the minimum duration to elapse      *)
(* before the clock's bound; bob stakes and unstakes as he likes.  The     *)
(* clock advances and alice's withdrawal of her whole balance, through a   *)
(* token program that accepts the transfer, happens if it stays possible.  *)
(***************************************************************************)
Withdrawer == "alice"
Others == Users \ {Withdrawer}
WithdrawAmounts == {50, 100}

Deposit ==
    /\ user_stake[Withdrawer].amount = 0
    /\ now + MIN_STAKE_DURATION <= MaxTime
    /\ \E a \in WithdrawAmounts :
          \/ Stake(Withdrawer, a, TRUE)
          \/ StakeWithMultipleAssets(Withdrawer, 0, a, TRUE)

WithdrawAll ==
    /\ user_stake[Withdrawer].amount > 0
    /\ Unstake(Withdrawer, user_stake[Withdrawer].amount, TRUE)
    /\ last'.result = OK

ClockAdvances == \E d \in TickSteps : Tick(d, MaxTime)

NextWithdraw ==
    \/ ClockAdvances
    \/ Deposit
    \/ WithdrawAll
    \/ \E a \in WithdrawAmounts, cpi_ok \in BOOLEAN :
          Unstake(Withdrawer, a, cpi_ok)
    \/ \E u \in Others, a \in WithdrawAmounts, cpi_ok \in BOOLEAN :
          Stake(u, a, cpi_ok)
    \/ \E u \in Others, a \in WithdrawAmounts :
          StakeWithMultipleAssets(u, 1, a, TRUE)
    \/ \E u \in Others, a \in WithdrawAmounts, cpi_ok \in BOOLEAN :
          Unstake(u, a, cpi_ok)

SpecWithdraw ==
    /\ Init
    /\ [][NextWithdraw]_vars
    /\ WF_vars(ClockAdvances)
    /\ WF_vars(WithdrawAll)

\* C19: withdrawal liveness.  A user holding stake who stakes no more does
\* get the whole balance out; and whatever the others have done, an unstake
\* of the caller's whole balance, 60 or more after the caller's last_update
\* and with the token program accepting the transfer, succeeds, empties the
\* caller's stake and pays the amount out of the vault.
C19_WithdrawalLiveness ==
    /\ (user_stake[Withdrawer].amount > 0) ~> (user_stake[Withdrawer].amount = 0)
    /\ [][(/\ last'.op = "unstake"
           /\ last'.amount = user_stake[last'.user].amount
           /\ now - user_stake[last'.user].last_update >= 60
           /\ last'.flags[1])
          => /\ last'.result = OK
             /\ user_stake'[last'.user].amount = 0
             /\ user_token_account'[last'.user]
                   = user_token_account[last'.user] + last'.amount
             /\ vault_account' = vault_account - last'.amount
         ]_vars

\* alice took her whole stake of 100 out while bob's stake stayed in.
C19_Witness ==
    /\ last.op = "unstake" /\ last.result = OK
    /\ last.user = Withdrawer /\ last.amount = 100
    /\ user_stake[Withdrawer].amount = 0
    /\ user_token_account[Withdrawer] = InitialBalance
    /\ \E u \in Others : user_stake[u].amount > 0

(***************************************************************************)
(* Accrual (checked under SpecAccrual): users stake and unstake until the  *)
(* first distribute_rewards after time 0 moves the checkpoint; from then   *)
(* on total_staked stays as it is and distribute_rewards is called at any  *)
(* times, any number of times.                                             *)
(***************************************************************************)
BeforeFirstCheckpoint == state.last_update = 0 /\ rewards_account = 0

NextAccrual ==
    \/ ClockAdvances
    \/ BeforeFirstCheckpoint /\ \E u \in Users, a \in WithdrawAmounts :
          Stake(u, a, TRUE)
    \/ BeforeFirstCheckpoint /\ \E u \in Users, a \in WithdrawAmounts :
          StakeWithMultipleAssets(u, 0, a, TRUE)
    \/ BeforeFirstCheckpoint /\ \E u \in Users, a \in WithdrawAmounts :
          Unstake(u, a, TRUE)
    \/ \E cpi_ok \in BOOLEAN : DistributeRewards(cpi_ok)

SpecAccrual == Init /\ [][NextAccrual]_vars

\* C20: no double-counted time.  Over the successful distribute_rewards
\* calls made while total_staked stays the same, the total minted is
\* total_staked * (time of the last call - state.last_update before the
\* first call, here 0); a distribute_rewards at the time of the checkpoint
\* mints 0; stake, stake_with_multiple_assets and unstake leave
\* state.last_update as it is.
C20_NoDoubleCounting ==
    /\ [](rewards_account = state.total_staked * (state.last_update - 0))
    /\ [][(/\ last'.op = "distribute_rewards" /\ last'.result = OK
           /\ state.last_update = now)
          => last'.minted = 0 /\ rewards_account' = rewards_account
         ]_vars
    /\ [][last'.op \in StakeOps \cup {"unstake"}
          => state'.last_update = state.last_update
         ]_vars

\* A later distribute_rewards minted for the time since an earlier one, on
\* a total_staked of 150 that had been reached by stakes and an unstake.
C20_Witness ==
    /\ last.op = "distribute_rewards" /\ last.result = OK
    /\ state.total_staked = 150
    /\ last.minted > 0
    /\ rewards_account > last.minted
    /\ rewards_account = 150 * now

====
